---- MODULE Spec2Model ----
(***************************************************************************)
(* A model of the numerical module of micropython-ulab                     *)
(* (code/numerical/numerical.c over the array descriptor of                *)
(* code/ndarray.h).  An array is a descriptor (ndim, shape, strides,       *)
(* itemsize, len, array pointer) over a buffer; pointers are byte offsets  *)
(* from the start of the buffer they point into, strides are in bytes.     *)
(* C index i of a fixed-size descriptor array is TLA+ index i + 1.         *)
(***************************************************************************)
EXTENDS Integers, Sequences, FiniteSets, TLC

VARIABLES oin, call, ret

vars == <<oin, call, ret>>

\* ------------------------------------------------------------------ bounds

\* the largest number of elements of an input array
MaxLen == 4

\* the largest absolute value of a roll distance
MaxDist == 3

\* the longest input sequence and the largest number in one
MaxSeq == 3

MaxVal == 3

\* the largest ddof
MaxDdof == 2

\* ------------------------------------------------------- program constants

ULAB_MAX_DIMS == 4

\* the wrap-around of size_t arithmetic (the len and shape fields, counters).
\* size_t is 32 or 64 bits wide in the builds; the model checker's integers end
\* at 2^31 - 1, so the model wraps at 2^30: every length, extent and stride of
\* the model is far below it, which leaves the wrap below zero, the only one
\* the bounded inputs reach, as it is.
SIZE_MOD == 2^30

\* the values memory the program never wrote may hold
JunkVals == {0, -1}

\* ------------------------------------------------------- integer conversions

\* conversion of an integer to int8_t (int8_t ax = mp_obj_get_int(axis))
ToInt8(x) == ((x + 128) % 256) - 128

\* conversion of an integer to size_t
ToSize(x) == x % SIZE_MOD

\* a size_t as a signed integer of its width (int32_t offset = ..), which is
\* also what adding it to a pointer amounts to
Signed(x) == IF x >= SIZE_MOD \div 2 THEN x - SIZE_MOD ELSE x

\* the product of two size_t
SizeMul(x, y) == ToSize(Signed(x) * Signed(y))

\* shift < 0 ? -shift : shift
Abs(shift) == IF shift < 0 THEN -shift ELSE shift

Max(a, b) == IF a > b THEN a ELSE b

\* ------------------------------------------------------------ descriptors

Slots == 1..ULAB_MAX_DIMS

RECURSIVE ProdFrom(_, _)
ProdFrom(shape, i) ==
    IF i > ULAB_MAX_DIMS THEN 1 ELSE shape[i] * ProdFrom(shape, i + 1)

\* the value a descriptor array holds after memset(.., 0, ..)
ZeroDesc == [i \in Slots |-> 0]

\* the descriptor of an array object
\*   ndim, shape, strides, itemsize, len : the fields of ndarray_obj_t
\*   array : the array pointer, as a byte offset into the buffer
\*   buf   : the identity of the buffer (equal for an array and its views)
\*   data  : the buffer's elements
NoArray ==
    [ndim |-> 0, shape |-> ZeroDesc, strides |-> ZeroDesc, itemsize |-> 0,
     len |-> 0, array |-> 0, buf |-> 0, data |-> <<>>]

\* the element the pointer p (a byte offset) points to; junk outside the buffer
Load(a, p, junk) ==
    IF a.itemsize > 0 /\ p % a.itemsize = 0
          /\ (p \div a.itemsize) + 1 \in 1..Len(a.data)
    THEN a.data[(p \div a.itemsize) + 1]
    ELSE junk

InBuffer(a, p) ==
    /\ a.itemsize > 0
    /\ p % a.itemsize = 0
    /\ (p \div a.itemsize) + 1 \in 1..Len(a.data)

\* row-major strides, rank-padded
RowMajorStrides(shape, itemsize) ==
    [i \in Slots |-> itemsize * ProdFrom(shape, i + 1)]

\* the shape with the slots in front of the last ndim ones set to 1
PadShape(ndim, shape) ==
    [i \in Slots |-> IF i > ULAB_MAX_DIMS - ndim THEN shape[i] ELSE 1]

ndarray_new_dense_ndarray(ndim, shape, itemsize, buf, junk) ==
    LET sh == PadShape(ndim, shape)
        n  == ProdFrom(sh, 1)
    IN  [ndim |-> ndim, shape |-> sh, strides |-> RowMajorStrides(sh, itemsize),
         itemsize |-> itemsize, len |-> n, array |-> 0, buf |-> buf,
         data |-> [k \in 1..n |-> junk]]

ndarray_new_linear_array(len, itemsize, buf, junk) ==
    ndarray_new_dense_ndarray(1, [i \in Slots |-> IF i = ULAB_MAX_DIMS THEN len ELSE 1],
                              itemsize, buf, junk)

ndarray_new_view(source, ndim, shape, strides, offset) ==
    [ndim |-> ndim, shape |-> shape, strides |-> strides,
     itemsize |-> source.itemsize, len |-> ProdFrom(shape, 1),
     array |-> source.array + offset, buf |-> source.buf, data |-> source.data]

\* ------------------------------------------------------ logical contents

\* the index tuples of an array, and the pointer of one of them
Indices(a) ==
    {<<i, j, k, l>> : i \in 0..(a.shape[1] - 1), j \in 0..(a.shape[2] - 1),
                      k \in 0..(a.shape[3] - 1), l \in 0..(a.shape[4] - 1)}

RECURSIVE DotFrom(_, _, _)
DotFrom(idx, strides, i) ==
    IF i > ULAB_MAX_DIMS THEN 0 ELSE idx[i] * strides[i] + DotFrom(idx, strides, i + 1)

PtrOf(a, idx) == a.array + DotFrom(idx, a.strides, 1)

Elem(a, idx, junk) == Load(a, PtrOf(a, idx), junk)

\* the row-major (traversal) position of an index tuple, and its inverse
FlatPos(shape, idx) == DotFrom(idx, RowMajorStrides(shape, 1), 1)

IdxOfFlat(shape, pos) ==
    [i \in Slots |-> IF shape[i] = 0 THEN 0
                     ELSE (pos \div ProdFrom(shape, i + 1)) % shape[i]]

\* the elements in traversal order
Flat(a, junk) == [pos \in 1..a.len |-> Elem(a, IdxOfFlat(a.shape, pos - 1), junk)]

\* ------------------------------------------------------------- results

\* what a call returns or raises
\*   kind : "array", "scalar", "none", "ValueError", "TypeError",
\*          "NotImplementedError", or "trap" (the processor's division trap)
\*   oob  : the pointers outside the result's buffer the call wrote through
\*   writes : the pointers into the result the call wrote through, in order
\*   red  : the scratch shape and strides arrays as the call left them
\*   live : the scratch buffers got with m_new and not given back with m_del
\*          when the call returns or raises
NoDesc == [shape |-> ZeroDesc, strides |-> ZeroDesc]

Result(kind, msg, arr, val, oob, writes) ==
    [kind |-> kind, msg |-> msg, arr |-> arr, val |-> val, oob |-> oob,
     writes |-> writes, red |-> NoDesc, live |-> 0]

WithRed(r, red) == [r EXCEPT !.red = red]

WithLive(r, n) == [r EXCEPT !.live = n]

RetArray(a) == Result("array", "", a, 0, {}, <<>>)

RetRaise(kind, msg) == Result(kind, msg, NoArray, 0, {}, <<>>)

RetNone == Result("none", "", NoArray, 0, {}, <<>>)

RetScalar(v) == Result("scalar", "", NoArray, v, {}, <<>>)

\* ------------------------------------------------------ axis arguments

\* a caller's axis argument: None, an integer, a boolean or a string
AxisNone == [t |-> "none", v |-> 0]

AxisInt(a) == [t |-> "int", v |-> a]

\* if(ax < 0) ax += ndim; on the int8_t the axis was converted to
NormAxis(ndim, a) ==
    LET ax == ToInt8(a) IN IF ax < 0 THEN ToInt8(ax + ndim) ELSE ax

\* (ax < 0) || (ax > ndim - 1)
AxisOutOfRange(ndim, ax) == (ax < 0) \/ (ax > ndim - 1)

\* --------------------------------------------------- numerical_reduce_axes

\* a faulty variant: the comparison with index is i >= index, so the slot of
\* the axis itself is kept and the one before it is lost
numerical_reduce_axes_KeepsAxis(a, axis, shape, strides) ==
    LET index == ULAB_MAX_DIMS - a.ndim + axis
    IN  IF a.ndim = 1 /\ axis = 0
        THEN [shape |-> [shape EXCEPT ![ULAB_MAX_DIMS] = 1], strides |-> strides]
        ELSE [shape |-> [i \in Slots |->
                            IF i = 1 THEN shape[1]
                            ELSE IF i - 1 >= index THEN a.shape[i] ELSE a.shape[i - 1]],
              strides |-> [i \in Slots |->
                            IF i = 1 THEN strides[1]
                            ELSE IF i - 1 >= index THEN a.strides[i] ELSE a.strides[i - 1]]]

\* the shape and strides arrays after the call, given their contents before it
numerical_reduce_axes(a, axis, shape, strides) ==
    LET index == ULAB_MAX_DIMS - a.ndim + axis
    IN  IF a.ndim = 1 /\ axis = 0
        THEN [shape |-> [shape EXCEPT ![ULAB_MAX_DIMS] = 1], strides |-> strides]
        ELSE [shape |-> [i \in Slots |->
                            IF i = 1 THEN shape[1]
                            ELSE IF i - 1 > index THEN a.shape[i] ELSE a.shape[i - 1]],
              strides |-> [i \in Slots |->
                            IF i = 1 THEN strides[1]
                            ELSE IF i - 1 > index THEN a.strides[i] ELSE a.strides[i - 1]]]

\* ----------------------------------------------------------- numerical_roll

\* the remainder x % y of the C program; y = 0 is undefined there: the
\* processor traps, or its divide instruction yields 0 and x is left
DivZeroOutcomes == {"trap", "dividend"}

CMod(x, y) == IF y = 0 THEN x ELSE x % y

\* memcpy(rarray, array, itemsize): the state st of the copy loops holds
\*   array, rarray : the two pointers;  counter : the size_t counter
\*   data : the elements of the results buffer so far;  oob, writes : see Result
Memcpy(a, results, st, junk) ==
    LET v == Load(a, st.array, junk)
        inside == InBuffer([results EXCEPT !.data = st.data], st.rarray)
    IN  [st EXCEPT
           !.data = IF inside
                    THEN [st.data EXCEPT ![(st.rarray \div results.itemsize) + 1] = v]
                    ELSE st.data,
           !.oob = IF inside THEN st.oob ELSE st.oob \cup {st.rarray},
           !.writes = Append(st.writes, st.rarray)]

\* the one value of a set of one: Only({e(x) : x \in {v}}) is e(v), with v
\* worked out once (the variables of a loop after one pass)
Only(S) == CHOOSE x \in S : TRUE

\* one pass of the innermost do-while of the flattened roll (lines 664-671)
RollFlatLBody(a, results, st, junk) ==
    Only({[m EXCEPT !.rarray = IF c = 0 THEN results.array
                               ELSE m.rarray + results.itemsize,
                    !.array = m.array + a.strides[ULAB_MAX_DIMS],
                    !.counter = c]
          : <<m, c>> \in {<<mm, IF mm.counter > 0 THEN mm.counter - 1 ELSE mm.counter>>
                           : mm \in {Memcpy(a, results, st, junk)}}})

\* the innermost do-while of the flattened roll (lines 663-672)
RECURSIVE RollFlatL(_, _, _, _, _)
RollFlatL(a, results, st, l, junk) ==
    Only({IF l + 1 < a.shape[ULAB_MAX_DIMS]
          THEN RollFlatL(a, results, s1, l + 1, junk)
          ELSE s1
          : s1 \in {RollFlatLBody(a, results, st, junk)}})

\* the do-while over shape[ULAB_MAX_DIMS - 2] (lines 660-677)
RECURSIVE RollFlatK(_, _, _, _, _)
RollFlatK(a, results, st, k, junk) ==
    Only({IF k + 1 < a.shape[ULAB_MAX_DIMS - 1]
          THEN RollFlatK(a, results, s1, k + 1, junk)
          ELSE s1
          : s1 \in {[m EXCEPT !.array = m.array
                        - a.strides[ULAB_MAX_DIMS] * a.shape[ULAB_MAX_DIMS]
                        + a.strides[ULAB_MAX_DIMS - 1]]
                    : m \in {RollFlatL(a, results, st, 0, junk)}}})

\* the do-while over shape[ULAB_MAX_DIMS - 3] (lines 656-683)
RECURSIVE RollFlatJ(_, _, _, _, _)
RollFlatJ(a, results, st, j, junk) ==
    Only({IF j + 1 < a.shape[ULAB_MAX_DIMS - 2]
          THEN RollFlatJ(a, results, s1, j + 1, junk)
          ELSE s1
          : s1 \in {[m EXCEPT !.array = m.array
                        - a.strides[ULAB_MAX_DIMS - 1] * a.shape[ULAB_MAX_DIMS - 1]
                        + a.strides[ULAB_MAX_DIMS - 2]]
                    : m \in {RollFlatK(a, results, st, 0, junk)}}})

\* the do-while over shape[ULAB_MAX_DIMS - 4] (lines 652-689)
RECURSIVE RollFlatI(_, _, _, _, _)
RollFlatI(a, results, st, i, junk) ==
    Only({IF i + 1 < a.shape[ULAB_MAX_DIMS - 3]
          THEN RollFlatI(a, results, s1, i + 1, junk)
          ELSE s1
          : s1 \in {[m EXCEPT !.array = m.array
                        - a.strides[ULAB_MAX_DIMS - 2] * a.shape[ULAB_MAX_DIMS - 2]
                        + a.strides[ULAB_MAX_DIMS - 3]]
                    : m \in {RollFlatJ(a, results, st, 0, junk)}}})

\* where the flattened roll starts to write, and after how many elements it
\* goes back to the start of the results (lines 642-649)
RollFlatStart(results, shift, _shift) ==
    IF shift > 0
    THEN [rarray |-> results.array + _shift * results.itemsize,
          counter |-> ToSize(results.len - _shift)]
    ELSE [rarray |-> results.array + Signed(SizeMul(ToSize(results.len - _shift), results.itemsize)),
          counter |-> ToSize(_shift)]

\* the roll of the flattened array (lines 641-690)
RollFlat(a, results, shift, junk) ==
    LET _shift == CMod(Abs(shift), results.len)
        start  == RollFlatStart(results, shift, _shift)
    IN  Only({Result("array", "", [results EXCEPT !.data = fin.data], 0, fin.oob, fin.writes)
              : fin \in {RollFlatI(a, results, st0, 0, junk)
                         : st0 \in {[array |-> a.array, rarray |-> start.rarray,
                                     counter |-> start.counter, data |-> results.data,
                                     oob |-> {}, writes |-> <<>>]}}})

\* the descriptors the roll along an axis works with:
\*   a, results : source and destination;  ax : the axis's slot (C index)
\*   shape, strides, rshape, rstrides : the reduced descriptors of both

\* where a line along the axis starts to write and when it goes back to the
\* line's start (lines 726-732)
RollAxisStart(r, shift, _shift, rarray) ==
    LET rs == r.results.strides[r.ax + 1]
        e  == r.results.shape[r.ax + 1]
        p0 == rarray + _shift * rs
        c0 == ToSize(e - _shift)
    IN  IF shift < 0 /\ _shift > 0
        THEN [rarray |-> p0 + Signed(SizeMul(ToSize(e - _shift), ToSize(rs))), counter |-> ToSize(_shift)]
        ELSE [rarray |-> p0, counter |-> c0]

\* one pass of the do-while along the axis (lines 734-740)
RollAxisLBody(r, st, _rarray, junk) ==
    Only({[m EXCEPT !.array = m.array + r.a.strides[r.ax + 1],
                    !.rarray = IF c = 0 THEN _rarray
                               ELSE m.rarray + r.results.strides[r.ax + 1],
                    !.counter = c]
          : <<m, c>> \in {<<mm, ToSize(mm.counter - 1)>>
                           : mm \in {Memcpy(r.a, r.results, st, junk)}}})

\* the do-while along the axis (lines 733-741); _rarray is the line's start
RECURSIVE RollAxisL(_, _, _, _, _)
RollAxisL(r, st, _rarray, l, junk) ==
    Only({IF l + 1 < r.a.shape[r.ax + 1]
          THEN RollAxisL(r, s1, _rarray, l + 1, junk)
          ELSE s1
          : s1 \in {RollAxisLBody(r, st, _rarray, junk)}})

\* the variables at the start of a line (lines 726-732)
RollAxisLine(r, shift, _shift, st) ==
    LET start == RollAxisStart(r, shift, _shift, st.rarray)
    IN  [st EXCEPT !.rarray = start.rarray, !.counter = start.counter]

\* the do-while over shape[ULAB_MAX_DIMS - 1] (lines 723-748)
RECURSIVE RollAxisK(_, _, _, _, _, _)
RollAxisK(r, shift, _shift, st, k, junk) ==
    Only({IF k + 1 < r.shape[ULAB_MAX_DIMS]
          THEN RollAxisK(r, shift, _shift, s1, k + 1, junk)
          ELSE s1
          : s1 \in {[m EXCEPT !.rarray = st.rarray + r.rstrides[ULAB_MAX_DIMS],
                              !.array = m.array
                                  - r.a.strides[r.ax + 1] * r.a.shape[r.ax + 1]
                                  + r.strides[ULAB_MAX_DIMS]]
                    : m \in {RollAxisL(r, s0, st.rarray, 0, junk)
                             : s0 \in {RollAxisLine(r, shift, _shift, st)}}}})

\* the do-while over shape[ULAB_MAX_DIMS - 2] (lines 719-756)
RECURSIVE RollAxisJ(_, _, _, _, _, _)
RollAxisJ(r, shift, _shift, st, j, junk) ==
    Only({IF j + 1 < r.shape[ULAB_MAX_DIMS - 1]
          THEN RollAxisJ(r, shift, _shift, s1, j + 1, junk)
          ELSE s1
          : s1 \in {[m EXCEPT !.rarray = m.rarray
                                  - r.rstrides[ULAB_MAX_DIMS] * r.rshape[ULAB_MAX_DIMS]
                                  + r.rstrides[ULAB_MAX_DIMS - 1],
                              !.array = m.array
                                  - r.strides[ULAB_MAX_DIMS] * r.shape[ULAB_MAX_DIMS]
                                  + r.strides[ULAB_MAX_DIMS - 1]]
                    : m \in {RollAxisK(r, shift, _shift, st, 0, junk)}}})

\* the do-while over shape[ULAB_MAX_DIMS - 3] (lines 715-764)
RECURSIVE RollAxisI(_, _, _, _, _, _)
RollAxisI(r, shift, _shift, st, i, junk) ==
    Only({IF i + 1 < r.shape[ULAB_MAX_DIMS - 2]
          THEN RollAxisI(r, shift, _shift, s1, i + 1, junk)
          ELSE s1
          : s1 \in {[m EXCEPT !.rarray = m.rarray
                                  - r.rstrides[ULAB_MAX_DIMS - 1] * r.rshape[ULAB_MAX_DIMS - 1]
                                  + r.rstrides[ULAB_MAX_DIMS - 2],
                              !.array = m.array
                                  - r.strides[ULAB_MAX_DIMS - 1] * r.shape[ULAB_MAX_DIMS - 1]
                                  + r.strides[ULAB_MAX_DIMS - 2]]
                    : m \in {RollAxisJ(r, shift, _shift, st, 0, junk)}}})

\* the roll along the axis ax, already checked and normalised (lines 697-765)
RollAxis(a, results, shift, ax, junk) ==
    LET red  == numerical_reduce_axes(a, ax, ZeroDesc, ZeroDesc)
        rred == numerical_reduce_axes(results, ax, ZeroDesc, ZeroDesc)
        slot == ULAB_MAX_DIMS - a.ndim + ax
        _shift == CMod(Abs(shift), results.shape[slot + 1])
    IN  Only({WithRed(Result("array", "", [results EXCEPT !.data = fin.data], 0,
                             fin.oob, fin.writes), red)
              : fin \in {RollAxisI(r, shift, _shift, st0, 0, junk)
                         : <<r, st0>> \in
                             {<<[a |-> a, results |-> results, ax |-> slot,
                                 shape |-> red.shape, strides |-> red.strides,
                                 rshape |-> rred.shape, rstrides |-> rred.strides],
                                [array |-> a.array, rarray |-> results.array, counter |-> 0,
                                 data |-> results.data, oob |-> {}, writes |-> <<>>]>>}}})

\* numerical_roll(array, distance, axis): o is the first argument
\*   junk : what the fresh results buffer holds;  dz : see DivZeroOutcomes
numerical_roll(o, distance, axis, junk, dz) ==
    IF o.kind # "ndarray"
    THEN RetRaise("TypeError", "roll argument must be an ndarray")
    ELSE
    LET a == o.nd
        results == ndarray_new_dense_ndarray(a.ndim, a.shape, a.itemsize, a.buf + 1, junk)
        shift == distance
    IN  IF axis.t = "none"
        THEN IF results.len = 0 /\ dz = "trap"
             THEN RetRaise("trap", "division by zero")
             ELSE RollFlat(a, results, shift, junk)
        ELSE IF axis.t = "int"
        THEN LET ax == NormAxis(a.ndim, axis.v)
             IN  IF AxisOutOfRange(a.ndim, ax)
                 THEN RetRaise("ValueError", "index out of range")
                 ELSE IF results.shape[ULAB_MAX_DIMS - a.ndim + ax + 1] = 0 /\ dz = "trap"
                 THEN WithLive(WithRed(RetRaise("trap", "division by zero"),
                                       numerical_reduce_axes(a, ax, ZeroDesc, ZeroDesc)), 4)
                 ELSE WithLive(RollAxis(a, results, shift, ax, junk), 4)
        ELSE RetRaise("TypeError", "wrong axis index")

\* ----------------------------------------------------------- numerical_flip

\* ndarray_copy_array(source, target): the elements of source, in traversal
\* order, into the dense target
ndarray_copy_array(source, target, junk) ==
    [target EXCEPT !.data = Flat(source, junk)]

\* a faulty variant: the array pointer is moved by len elements, not len - 1
FlipFlat_PastEnd(a, junk) ==
    LET lin == ndarray_new_linear_array(a.len, a.itemsize, a.buf + 1, junk)
        results == ndarray_copy_array(a, lin, junk)
    IN  [results EXCEPT
           !.array = results.array
                       + Signed(SizeMul(ToSize(results.len), results.itemsize)),
           !.strides[ULAB_MAX_DIMS] = -results.strides[ULAB_MAX_DIMS]]

\* the flip of the flattened array (lines 553-559)
FlipFlat(a, junk) ==
    LET lin == ndarray_new_linear_array(a.len, a.itemsize, a.buf + 1, junk)
        results == ndarray_copy_array(a, lin, junk)
    IN  [results EXCEPT
           !.array = results.array
                       + Signed(SizeMul(ToSize(results.len - 1), results.itemsize)),
           !.strides[ULAB_MAX_DIMS] = -results.strides[ULAB_MAX_DIMS]]

\* a faulty variant: the stride of the axis is not negated
FlipAxis_KeepStride(a, ax) ==
    LET offset == Signed(SizeMul(ToSize(a.shape[ax + 1] - 1), ToSize(a.strides[ax + 1])))
    IN  ndarray_new_view(a, a.ndim, a.shape, a.strides, offset)

\* a faulty variant: the offset is shape * stride, one element too far
FlipAxis_PastEnd(a, ax) ==
    LET offset == Signed(SizeMul(ToSize(a.shape[ax + 1]), ToSize(a.strides[ax + 1])))
        results == ndarray_new_view(a, a.ndim, a.shape, a.strides, offset)
    IN  [results EXCEPT !.strides[ax + 1] = -results.strides[ax + 1]]

\* the flip along the axis in slot ax (C index) (lines 566-569)
FlipAxis(a, ax) ==
    LET offset == Signed(SizeMul(ToSize(a.shape[ax + 1] - 1), ToSize(a.strides[ax + 1])))
        results == ndarray_new_view(a, a.ndim, a.shape, a.strides, offset)
    IN  [results EXCEPT !.strides[ax + 1] = -results.strides[ax + 1]]

\* numerical_flip(array, axis)
numerical_flip(o, axis, junk) ==
    IF o.kind # "ndarray"
    THEN RetRaise("TypeError", "flip argument must be an ndarray")
    ELSE IF axis.t = "none"
    THEN RetArray(FlipFlat(o.nd, junk))
    ELSE IF axis.t = "int"
    THEN LET ax == NormAxis(o.nd.ndim, axis.v)
         IN  IF AxisOutOfRange(o.nd.ndim, ax)
             THEN RetRaise("ValueError", "index out of range")
             ELSE RetArray(FlipAxis(o.nd, ULAB_MAX_DIMS - o.nd.ndim + ax))
    ELSE RetRaise("TypeError", "wrong axis index")

\* ------------------------------------------------------------- rationals

\* the floating-point values of the program, kept exact: <<n, d>> is n / d
RECURSIVE Gcd(_, _)
Gcd(x, y) == IF y = 0 THEN x ELSE Gcd(y, x % y)

Rat(n, d) ==
    LET g == Gcd(Abs(n), Abs(d))
        sg == IF d < 0 THEN -1 ELSE 1
    IN  IF g = 0 THEN <<n, d>> ELSE <<sg * (n \div g), sg * (d \div g)>>

RatInt(x) == <<x, 1>>

RatAdd(p, q) == Rat(p[1] * q[2] + q[1] * p[2], p[2] * q[2])

RatSub(p, q) == Rat(p[1] * q[2] - q[1] * p[2], p[2] * q[2])

RatMul(p, q) == Rat(p[1] * q[1], p[2] * q[2])

RatDiv(p, q) == Rat(p[1] * q[2], p[2] * q[1])

RatLess(p, q) == p[1] * q[2] < q[1] * p[2]

\* the square root of a rational, kept as the rational under the root
Sqrt(p) == [sqrt |-> p]

\* ------------------------------------------------- reductions of sequences

\* the state of the scan of numerical_sum_mean_std_iterable (line 63)
ScanInit ==
    [M |-> RatInt(0), m |-> RatInt(0), S |-> RatInt(0), s |-> RatInt(0),
     sum |-> Rat(9, 10), count |-> 1]

\* the first item (lines 67-72)
ScanFirst(st, item) ==
    [st EXCEPT !.sum = RatAdd(st.sum, RatInt(item)), !.M = RatInt(item),
               !.m = RatInt(item), !.count = st.count + 1]

\* one more item (lines 73-81)
ScanNext(st, item) ==
    LET value == RatInt(item)
        m == RatAdd(st.M, RatDiv(RatSub(value, st.M), RatInt(st.count)))
        s == RatAdd(st.S, RatMul(RatSub(value, st.M), RatSub(value, m)))
    IN  [st EXCEPT !.sum = RatAdd(st.sum, value), !.m = m, !.s = s, !.M = m, !.S = s,
                   !.count = st.count + 1]

RECURSIVE ScanFrom(_, _, _)
ScanFrom(st, items, i) ==
    IF i > Len(items) THEN st ELSE ScanFrom(ScanNext(st, items[i]), items, i + 1)

Scan(items) ==
    IF Len(items) = 0 THEN ScanInit
    ELSE ScanFrom(ScanFirst(ScanInit, items[1]), items, 2)

numerical_sum_mean_std_iterable(items, optype, ddof) ==
    LET st == Scan(items)
    IN  IF optype = "sum" THEN RetScalar(st.sum)
        ELSE IF optype = "mean"
        THEN RetScalar(IF st.count > 0 THEN st.m ELSE RatInt(0))
        ELSE IF st.count > ddof
        THEN RetScalar(Sqrt(RatDiv(RatMul(RatInt(st.count), st.s),
                                   RatInt(st.count - ddof))))
        ELSE RetScalar(Sqrt(RatInt(0)))

\* a faulty variant: the comparisons are <= and >=, so the last of equal
\* items wins
RECURSIVE BestFrom_LastTie(_, _, _, _)
BestFrom_LastTie(items, op, best, i) ==
    IF i > Len(items) THEN best
    ELSE IF (op = 0 /\ items[i] <= items[best + 1]) \/ (op = 1 /\ items[i] >= items[best + 1])
    THEN BestFrom_LastTie(items, op, i - 1, i + 1)
    ELSE BestFrom_LastTie(items, op, best, i + 1)

\* the scan of numerical_argmin_argmax_iterable (lines 179-191): best is the
\* index (from 0) of the best item so far
RECURSIVE BestFrom(_, _, _, _)
BestFrom(items, op, best, i) ==
    IF i > Len(items) THEN best
    ELSE IF (op = 0 /\ items[i] < items[best + 1]) \/ (op = 1 /\ items[i] > items[best + 1])
    THEN BestFrom(items, op, i - 1, i + 1)
    ELSE BestFrom(items, op, best, i + 1)

numerical_argmin_argmax_iterable(items, optype) ==
    IF Len(items) = 0
    THEN RetRaise("ValueError", "attempt to get argmin/argmax of an empty sequence")
    ELSE LET op == IF optype \in {"argmax", "max"} THEN 1 ELSE 0
             best_idx == BestFrom(items, op, 0, 2)
         IN  IF optype \in {"argmin", "argmax"}
             THEN RetScalar(best_idx)
             ELSE RetScalar(items[best_idx + 1])

\* ---------------------------------------------------- reductions of arrays

\* the elements of a along the axis in slot index (C index), at the place the
\* index tuple r of the reduced array stands for
Line(a, index, r, junk) ==
    [t \in 1..a.shape[index + 1] |->
        Elem(a, [i \in Slots |-> IF i - 1 = index THEN t - 1
                                 ELSE IF i - 1 > index THEN r[i]
                                 ELSE IF i < ULAB_MAX_DIMS THEN r[i + 1] ELSE 0], junk)]

RECURSIVE SumFrom(_, _)
SumFrom(line, i) == IF i > Len(line) THEN 0 ELSE line[i] + SumFrom(line, i + 1)

\* the sum of the squares of the distances from the mean, as the streaming
\* update of the spec leaves it in s
SumSqDev(line) ==
    IF Len(line) = 0 THEN RatInt(0)
    ELSE (ScanFrom([ScanFirst(ScanInit, line[1]) EXCEPT !.count = 2], line, 2)).s

\* what the kernels RUN_SUM, RUN_MEAN, RUN_STD and RUN_ARGMIN leave in one
\* element of the results, from the line of the source it folds
KernelValue(optype, line, div) ==
    IF optype = "sum" THEN SumFrom(line, 1)
    ELSE IF optype = "mean"
    THEN (IF Len(line) = 0 THEN RatInt(0) ELSE Rat(SumFrom(line, 1), Len(line)))
    ELSE IF optype = "std" THEN [ssd |-> SumSqDev(line), div |-> div]
    ELSE IF Len(line) = 0 THEN 0
    ELSE LET best == BestFrom(line, IF optype \in {"argmax", "max"} THEN 1 ELSE 0, 0, 2)
         IN  IF optype \in {"argmin", "argmax"} THEN best ELSE line[best + 1]

\* the results array with the kernel run over every line along the axis
RunKernel(a, results, index, optype, div, junk) ==
    [results EXCEPT !.data =
        [pos \in 1..results.len |->
            KernelValue(optype,
                        Line(a, index, IdxOfFlat(results.shape, pos - 1), junk), div)]]

\* mp_binary_get_val_array(results->dtype, results->array, 0)
FirstValue(results, junk) == Load(results, results.array, junk)

\* numerical_sum_mean_std_ndarray(ndarray, axis, optype, ddof); axis is None
\* or an integer object
numerical_sum_mean_std_ndarray(a, axis, optype, ddof, junk) ==
    WithLive(
    IF axis.t = "none"
    THEN RetNone
    ELSE LET ax == NormAxis(a.ndim, axis.v)
         IN  IF AxisOutOfRange(a.ndim, ax)
             THEN RetRaise("ValueError", "index out of range")
             ELSE LET red == numerical_reduce_axes(a, ax, ZeroDesc, ZeroDesc)
                      index == ULAB_MAX_DIMS - a.ndim + ax
                      div == ToSize(a.shape[index + 1] - ddof)
                      fresh == ndarray_new_dense_ndarray(Max(1, a.ndim - 1), red.shape,
                                   IF optype = "sum" THEN a.itemsize ELSE 4,
                                   a.buf + 1, junk)
                      results == RunKernel(a, fresh, index, optype, div, junk)
                  IN  IF a.ndim = 1
                      THEN WithRed(RetScalar(FirstValue(results, junk)), red)
                      ELSE WithRed(RetArray(results), red),
    2)

\* a faulty variant: the axis is looked at before the length
numerical_argmin_argmax_ndarray_AxisFirst(a, axis, optype, junk) ==
    IF axis.t = "none"
    THEN WithLive(RetNone, 2)
    ELSE IF AxisOutOfRange(a.ndim, NormAxis(a.ndim, axis.v))
    THEN WithLive(RetRaise("ValueError", "index out of range"), 2)
    ELSE IF a.len = 0
    THEN WithLive(RetRaise("ValueError",
                           "attempt to get (arg)min/(arg)max of empty sequence"), 2)
    ELSE LET ax == NormAxis(a.ndim, axis.v)
             red == numerical_reduce_axes(a, ax, ZeroDesc, ZeroDesc)
             index == ULAB_MAX_DIMS - a.ndim + ax
             fresh == ndarray_new_dense_ndarray(Max(1, a.ndim - 1), red.shape,
                          IF optype \in {"argmin", "argmax"} THEN 2 ELSE a.itemsize,
                          a.buf + 1, junk)
             results == RunKernel(a, fresh, index, optype, 0, junk)
         IN  WithLive(IF results.len = 1
                      THEN WithRed(RetScalar(FirstValue(results, junk)), red)
                      ELSE WithRed(RetArray(results), red), 2)

\* numerical_argmin_argmax_ndarray(ndarray, axis, optype)
numerical_argmin_argmax_ndarray(a, axis, optype, junk) ==
    IF a.len = 0
    THEN RetRaise("ValueError", "attempt to get (arg)min/(arg)max of empty sequence")
    ELSE WithLive(
    IF axis.t = "none"
    THEN RetNone
    ELSE LET ax == NormAxis(a.ndim, axis.v)
         IN  IF AxisOutOfRange(a.ndim, ax)
             THEN RetRaise("ValueError", "index out of range")
             ELSE LET red == numerical_reduce_axes(a, ax, ZeroDesc, ZeroDesc)
                      index == ULAB_MAX_DIMS - a.ndim + ax
                      fresh == ndarray_new_dense_ndarray(Max(1, a.ndim - 1), red.shape,
                                   IF optype \in {"argmin", "argmax"} THEN 2 ELSE a.itemsize,
                                   a.buf + 1, junk)
                      results == RunKernel(a, fresh, index, optype, 0, junk)
                  IN  IF results.len = 1
                      THEN WithRed(RetScalar(FirstValue(results, junk)), red)
                      ELSE WithRed(RetArray(results), red),
    2)

\* numerical_function(args, optype): min, max, argmin, argmax, sum, mean
numerical_function(o, axis, optype, junk) ==
    IF axis.t # "none" /\ axis.t # "int"
    THEN RetRaise("TypeError", "axis must be None, or an integer")
    ELSE IF o.kind = "iterable"
    THEN (IF optype \in {"min", "argmin", "max", "argmax"}
          THEN numerical_argmin_argmax_iterable(o.items, optype)
          ELSE IF optype \in {"sum", "mean"}
          THEN numerical_sum_mean_std_iterable(o.items, optype, 0)
          ELSE RetNone)
    ELSE IF o.kind = "ndarray"
    THEN (IF optype \in {"min", "argmin", "max", "argmax"}
          THEN numerical_argmin_argmax_ndarray(o.nd, axis, optype, junk)
          ELSE IF optype \in {"sum", "mean"}
          THEN numerical_sum_mean_std_ndarray(o.nd, axis, optype, 0, junk)
          ELSE RetRaise("NotImplementedError", "operation is not implemented on ndarrays"))
    ELSE RetRaise("TypeError", "input must be tuple, list, range, or ndarray")

\* numerical_std(array, axis, ddof); mp_obj_get_int takes an integer or a
\* boolean and raises a TypeError on any other object
numerical_std(o, axis, ddof, junk) ==
    IF axis.t = "str"
    THEN RetRaise("TypeError", "can't convert str to int")
    ELSE IF axis.t # "none" /\ axis.v # 0 /\ axis.v # 1
    THEN RetRaise("ValueError", "axis must be None, or an integer")
    ELSE IF o.kind = "iterable"
    THEN numerical_sum_mean_std_iterable(o.items, "std", ddof)
    ELSE IF o.kind = "ndarray"
    THEN numerical_sum_mean_std_ndarray(o.nd, axis, "std", ddof, junk)
    ELSE RetRaise("TypeError", "input must be tuple, list, range, or ndarray")

\* ----------------------------------------------------------- numerical_diff

\* the quotient x / y of the C program (y > 0): towards zero
CDiv(x, y) == IF x >= 0 THEN x \div y ELSE -((-x) \div y)

\* conversion of an integer to uint8_t (uint8_t N = args[1].u_int)
ToUint8(x) == x % 256

\* a faulty variant: the sign is not alternated
RECURSIVE StencilFrom_NoSign(_, _, _)
StencilFrom_NoSign(st, N, i) ==
    IF i >= N + 1 THEN st
    ELSE StencilFrom_NoSign(Append(st, ToInt8(CDiv(st[i] * (N - i + 1), i))), N, i + 1)

\* the int8_t stencil of order N (lines 490-494)
RECURSIVE StencilFrom(_, _, _)
StencilFrom(st, N, i) ==
    IF i >= N + 1 THEN st
    ELSE StencilFrom(Append(st, ToInt8(CDiv(-st[i] * (N - i + 1), i))), N, i + 1)

Stencil(N) == StencilFrom(<<1>>, N, 1)

\* what the kernel RUN_DIFF leaves in the element of the results at the index
\* tuple idx: the stencil over the source, along the axis in slot index
RECURSIVE DiffValue(_, _, _, _, _, _)
DiffValue(a, index, idx, stencil, i, junk) ==
    IF i > Len(stencil) THEN 0
    ELSE stencil[i] * Elem(a, [idx EXCEPT ![index + 1] = idx[index + 1] + i - 1], junk)
           + DiffValue(a, index, idx, stencil, i + 1, junk)

numerical_diff(o, n, axis, junk) ==
    IF axis.t \notin {"int", "bool"}
    THEN RetRaise("TypeError", "can't convert to int")
    ELSE IF o.kind # "ndarray"
    THEN RetRaise("TypeError", "diff argument must be an ndarray")
    ELSE
    LET a == o.nd
        ax == NormAxis(a.ndim, axis.v)
        N == ToUint8(n)
        index == ULAB_MAX_DIMS - a.ndim + ax
    IN  IF AxisOutOfRange(a.ndim, ax)
        THEN RetRaise("ValueError", "index out of range")
        ELSE IF N < 0 \/ N > 9 \/ N > a.shape[index + 1]
        THEN RetRaise("ValueError", "differentiation order out of range")
        ELSE LET stencil == Stencil(N)
                 shape == [i \in Slots |-> IF i - 1 = index THEN ToSize(a.shape[i] - N)
                                           ELSE a.shape[i]]
                 fresh == ndarray_new_dense_ndarray(a.ndim, shape, a.itemsize,
                                                    a.buf + 1, junk)
             IN  WithRed(RetArray([fresh EXCEPT !.data =
                     [pos \in 1..fresh.len |->
                         DiffValue(a, index, IdxOfFlat(fresh.shape, pos - 1),
                                   stencil, 1, junk)]]),
                         numerical_reduce_axes(a, ax, ZeroDesc, ZeroDesc))

\* ------------------------------------------------------------------ inputs

\* the shapes of rank ndim with at most MaxLen elements, and the empty ones
\* with a single axis of extent 0
Extents == 1..MaxLen

ShapesOfRank(ndim) ==
    {sh \in [Slots -> Extents] :
        /\ \A i \in Slots : i <= ULAB_MAX_DIMS - ndim => sh[i] = 1
        /\ ProdFrom(sh, 1) <= MaxLen}

EmptyShapesOfRank(ndim) ==
    {[sh EXCEPT ![z] = 0] : sh \in {t \in ShapesOfRank(ndim) : ProdFrom(t, 1) <= 2},
                            z \in (ULAB_MAX_DIMS - ndim + 1)..ULAB_MAX_DIMS}

\* the array the host builds from a nested sequence: dense, and element k of
\* its buffer holds k
NewArray(ndim, shape, itemsize) ==
    LET a == ndarray_new_dense_ndarray(ndim, shape, itemsize, 0, 0)
    IN  [a EXCEPT !.data = [k \in 1..a.len |-> k]]

\* the element sizes of the dtypes: 1 (uint8, int8), 2 (uint16, int16)
Itemsizes == {1, 2}

Ranks == 1..ULAB_MAX_DIMS

DenseArrays ==
    UNION {{NewArray(ndim, sh, isz) :
               sh \in ShapesOfRank(ndim) \cup EmptyShapesOfRank(ndim), isz \in Itemsizes} :
           ndim \in Ranks}

\* the slots (C indices) of the axes of an array
AxisSlots(a) == (ULAB_MAX_DIMS - a.ndim)..(ULAB_MAX_DIMS - 1)

\* the views flip makes of a dense array with elements: one axis reversed
ReversedViews ==
    UNION {{FlipAxis(a, ax) : ax \in AxisSlots(a)} : a \in {d \in DenseArrays : d.len > 0}}

\* the first argument of a call: an array, or a host object that is none
NdObj(a) == [kind |-> "ndarray", nd |-> a, items |-> <<>>]

\* a tuple, list or range of numbers
IterObj(items) == [kind |-> "iterable", nd |-> NoArray, items |-> items]

Iterables == UNION {[1..n -> 1..MaxVal] : n \in 0..MaxSeq}

OtherObj == [kind |-> "other", nd |-> NoArray, items |-> <<>>]

Inputs ==
    {NdObj(a) : a \in DenseArrays \cup ReversedViews}
      \cup {IterObj(items) : items \in Iterables} \cup {OtherObj}

\* the axis arguments tried on an array of rank ndim: None, a string, a
\* boolean, the integers around [-ndim, ndim) and some far outside it
WideAxes == {5, 254, 256, -256}

AxisArgs(ndim) ==
    {AxisNone, [t |-> "str", v |-> 0], [t |-> "bool", v |-> 1]}
      \cup {AxisInt(x) : x \in ((-(ndim + 1))..ndim) \cup WideAxes}

Distances == (-MaxDist)..MaxDist

\* ------------------------------------------------------------ the machine

\* the orders tried on diff: around the valid ones, and far outside them
DiffOrders == ((-1)..(MaxLen + 1)) \cup {9, 10, 256, 257}

Optypes == {"min", "max", "argmin", "argmax", "sum", "mean"}

\* the last call: the function and its arguments
Call(fn, axis, distance, n, ddof) ==
    [fn |-> fn, axis |-> axis, distance |-> distance, n |-> n, ddof |-> ddof]

NoCall == Call("", AxisNone, 0, 0, 0)

Init ==
    /\ oin \in Inputs
    /\ call = NoCall
    /\ ret = RetNone

\* one call is made on the input: the actions are the module's functions
Idle == call = NoCall

\* min, max, argmin, argmax, sum and mean: numerical_function with the optype
Function ==
    \E optype \in Optypes, axis \in AxisArgs(oin.nd.ndim), junk \in JunkVals :
        /\ Idle
        /\ call' = Call(optype, axis, 0, 0, 0)
        /\ ret' = numerical_function(oin, axis, optype, junk)
        /\ UNCHANGED oin

Std ==
    \E axis \in AxisArgs(oin.nd.ndim), ddof \in 0..MaxDdof, junk \in JunkVals :
        /\ Idle
        /\ call' = Call("std", axis, 0, 0, ddof)
        /\ ret' = numerical_std(oin, axis, ddof, junk)
        /\ UNCHANGED oin

Diff ==
    \E n \in DiffOrders, axis \in AxisArgs(oin.nd.ndim), junk \in JunkVals :
        /\ Idle
        /\ call' = Call("diff", axis, 0, n, 0)
        /\ ret' = numerical_diff(oin, n, axis, junk)
        /\ UNCHANGED oin

Flip ==
    \E axis \in AxisArgs(oin.nd.ndim), junk \in JunkVals :
        /\ Idle
        /\ call' = Call("flip", axis, 0, 0, 0)
        /\ ret' = numerical_flip(oin, axis, junk)
        /\ UNCHANGED oin

Roll ==
    \E distance \in Distances, axis \in AxisArgs(oin.nd.ndim),
       junk \in JunkVals, dz \in DivZeroOutcomes :
        /\ Idle
        /\ call' = Call("roll", axis, distance, 0, 0)
        /\ ret' = numerical_roll(oin, distance, axis, junk, dz)
        /\ UNCHANGED oin

Next == Function \/ Std \/ Diff \/ Flip \/ Roll

Spec == Init /\ [][Next]_vars

\* the functions one family at a time
SpecReduce == Init /\ [][Function \/ Std]_vars

SpecStd == Init /\ [][Std]_vars

SpecDiff == Init /\ [][Diff]_vars

SpecFlip == Init /\ [][Flip]_vars

SpecRoll == Init /\ [][Roll]_vars

\* the orders the check of line 486 lets through to the stencil loop
StencilOrders == 0..9

\* the stencil loop of numerical_diff on its own (lines 490-494): the order
\* is in call.n, the stencil it builds in ret.val
DiffStencil ==
    \E N \in StencilOrders :
        /\ Idle
        /\ call' = Call("stencil", AxisNone, 0, N, 0)
        /\ ret' = RetScalar(Stencil(N))
        /\ UNCHANGED oin

SpecStencil == Init /\ [][DiffStencil]_vars

\* ------------------------------------------------------------- properties

\* the state after a call of fn on an array
CalledOnArray(fn) == call.fn = fn /\ oin.kind = "ndarray"

\* the caller's axis is an integer of [-ndim, ndim)
ValidIntAxis ==
    call.axis.t = "int" /\ call.axis.v >= -oin.nd.ndim /\ call.axis.v < oin.nd.ndim

\* the slot (TLA+ index) of the caller's valid axis, and the extent along it
SlotOfAxis == ULAB_MAX_DIMS - oin.nd.ndim + (call.axis.v % oin.nd.ndim) + 1

ExtentOfAxis == oin.nd.shape[SlotOfAxis]

\* what an array object holds: its shape and its elements in traversal order
Contents(a, junk) == [ndim |-> a.ndim, shape |-> a.shape, elems |-> Flat(a, junk)]

\* C1: the roll of the flattened array by d puts the source's element of
\* traversal position i at position (i + d) mod L of the result, for every
\* distance d and every non-empty array of L elements.
C1_FlatRollPlacement ==
    (CalledOnArray("roll") /\ call.axis.t = "none" /\ oin.nd.len > 0) =>
        /\ ret.kind = "array"
        /\ ret.arr.len = oin.nd.len
        /\ \A i \in 0..(oin.nd.len - 1), junk \in JunkVals :
              Flat(ret.arr, junk)[((i + call.distance) % oin.nd.len) + 1]
                  = Flat(oin.nd, junk)[i + 1]

\* C2: the roll along a valid integer axis of extent E > 0 moves the element
\* at index i of every line along that axis to index (i + d) mod E of the same
\* line, for positive and for negative d alike.
C2_AxisRollPlacement ==
    (CalledOnArray("roll") /\ ValidIntAxis /\ oin.nd.len > 0) =>
        /\ ret.kind = "array"
        /\ ret.arr.shape = oin.nd.shape
        /\ \A idx \in Indices(oin.nd), junk \in JunkVals :
              Elem(ret.arr,
                   [idx EXCEPT ![SlotOfAxis] = (idx[SlotOfAxis] + call.distance) % ExtentOfAxis],
                   junk)
                  = Elem(oin.nd, idx, junk)

\* C3: rolling by d and then by -d, flattened or along the same valid axis,
\* gives back the array: the same shape and the same element at every index.
C3_RollRoundTrip ==
    (CalledOnArray("roll") /\ (call.axis.t = "none" \/ ValidIntAxis) /\ oin.nd.len > 0) =>
        /\ ret.kind = "array"
        /\ \A junk \in JunkVals, dz \in DivZeroOutcomes :
              LET back == numerical_roll(NdObj(ret.arr), -call.distance, call.axis, junk, dz)
              IN  /\ back.kind = "array"
                  /\ Contents(back.arr, junk) = Contents(oin.nd, junk)

\* the number of elements the roll cycles through: all of them for the
\* flattened roll, the extent of the axis otherwise
RollPeriod == IF call.axis.t = "none" THEN oin.nd.len ELSE ExtentOfAxis

\* C4: the roll depends on d only modulo the extent E: rolling by d + k * E is
\* rolling by d, and rolling by a multiple of E (E, -E, 0) gives the array.
C4_RollModuloExtent ==
    (CalledOnArray("roll") /\ (call.axis.t = "none" \/ ValidIntAxis) /\ oin.nd.len > 0) =>
        /\ ret.kind = "array"
        /\ \A junk \in JunkVals :
              /\ call.distance % RollPeriod = 0 =>
                    Contents(ret.arr, junk) = Contents(oin.nd, junk)
              /\ \A d2 \in Distances, dz \in DivZeroOutcomes :
                    (d2 - call.distance) % RollPeriod = 0 =>
                        LET other == numerical_roll(oin, d2, call.axis, junk, dz)
                        IN  /\ other.kind = "array"
                            /\ Contents(other.arr, junk) = Contents(ret.arr, junk)

\* the flip applied once more, with the same axis, to the array a flip returned
FlipBack(junk) == numerical_flip(NdObj(ret.arr), call.axis, junk)

C6_FlipAxisIsView ==
    [][(call'.fn = "flip" /\ oin.kind = "ndarray" /\ call'.axis.t = "int"
           /\ call'.axis.v >= -oin.nd.ndim /\ call'.axis.v < oin.nd.ndim) =>
        LET a == oin.nd
            slot == ULAB_MAX_DIMS - a.ndim + (call'.axis.v % a.ndim) + 1
            e == a.shape[slot]
            v == ret'.arr
        IN  /\ oin' = oin
            /\ ret'.kind = "array"
            /\ v.buf = a.buf /\ v.data = a.data
            /\ v.ndim = a.ndim /\ v.shape = a.shape /\ v.itemsize = a.itemsize
            /\ \A i \in Slots :
                  v.strides[i] = IF i = slot THEN -a.strides[i] ELSE a.strides[i]
            /\ e > 0 => v.array = PtrOf(a, [i \in Slots |-> IF i = slot THEN e - 1 ELSE 0])
            /\ \A idx \in Indices(a), junk \in JunkVals :
                  Elem(v, idx, junk) = Elem(a, [idx EXCEPT ![slot] = e - 1 - idx[slot]], junk)
      ]_vars

\* a flip along a valid axis of extent 2 or more has returned a view that
\* starts elsewhere than its source
C6_Witness ==
    /\ CalledOnArray("flip") /\ ValidIntAxis
    /\ ExtentOfAxis >= 2
    /\ ret.kind = "array"
    /\ ret.arr.buf = oin.nd.buf
    /\ ret.arr.array # oin.nd.array

Reductions == {"sum", "mean", "std", "min", "max", "argmin", "argmax"}

\* a reduction along a valid integer axis of an array has returned a value
ReducedAlongAxis ==
    /\ call.fn \in Reductions /\ oin.kind = "ndarray"
    /\ ValidIntAxis
    /\ ret.kind \in {"array", "scalar"}

\* the k-th of the slots other than the slot of the axis, in their order
OtherSlot(k) == IF k < SlotOfAxis THEN k ELSE k + 1

\* C8 as stated: for an array of rank 2 to 4 the reduced descriptor holds,
\* right-aligned, the (extent, stride) pairs of the axes other than the chosen
\* one in their order, and its leading slot 0 is shape 1 / stride 0; for a
\* rank-1 array the last slot of the shape is 1.
C8_ReducedLeadingSlotOne ==
    ReducedAlongAxis =>
        IF oin.nd.ndim = 1
        THEN ret.red.shape[ULAB_MAX_DIMS] = 1
        ELSE /\ ret.red.shape[1] = 1 /\ ret.red.strides[1] = 0
             /\ \A k \in 1..(ULAB_MAX_DIMS - 1) :
                   /\ ret.red.shape[k + 1] = oin.nd.shape[OtherSlot(k)]
                   /\ ret.red.strides[k + 1] = oin.nd.strides[OtherSlot(k)]

\* C8: for an array of rank 2 to 4 the slots 1 .. ULAB_MAX_DIMS - 1 of the
\* reduced descriptor hold the (extent, stride) pairs of the source's slots
\* other than the chosen axis's in their order (the axes right-aligned, the
\* source's padding in front of them), and slot 0 is left as the caller
\* zeroed it: shape 0 / stride 0; for a rank-1 array the last slot of the
\* shape is 1 and everything else is left zero.
C8_ReducedDescriptor ==
    ReducedAlongAxis =>
        IF oin.nd.ndim = 1
        THEN /\ ret.red.shape = [i \in Slots |-> IF i = ULAB_MAX_DIMS THEN 1 ELSE 0]
             /\ ret.red.strides = ZeroDesc
        ELSE /\ ret.red.shape[1] = 0 /\ ret.red.strides[1] = 0
             /\ \A k \in 1..(ULAB_MAX_DIMS - 1) :
                   /\ ret.red.shape[k + 1] = oin.nd.shape[OtherSlot(k)]
                   /\ ret.red.strides[k + 1] = oin.nd.strides[OtherSlot(k)]

\* a sum along the middle axis of a rank-3 array with several elements has
\* returned an array
C8_Witness ==
    /\ ReducedAlongAxis /\ call.fn = "sum"
    /\ oin.nd.ndim = 3 /\ call.axis.v = 1 /\ oin.nd.len >= 2
    /\ ret.kind = "array"
    /\ ret.red.shape[ULAB_MAX_DIMS] = oin.nd.shape[ULAB_MAX_DIMS]

\* the functions that take an axis and check it against the rank
AxisCheckers == {"sum", "mean", "min", "max", "argmin", "argmax", "diff", "flip", "roll"}

RaisedOutOfRange == ret.kind = "ValueError" /\ ret.msg = "index out of range"

\* C9: on a non-empty array of rank ndim every integer axis outside
\* [-ndim, ndim) (5 on rank 2, 256 and -256 among them) fails with
\* ValueError 'index out of range', and every axis inside it is accepted, in
\* sum, mean, min, max, argmin, argmax, diff, flip and roll.
C9_AxisRangeChecked ==
    (call.fn \in AxisCheckers /\ oin.kind = "ndarray" /\ oin.nd.len > 0
        /\ call.axis.t = "int") =>
        (RaisedOutOfRange <=> ~ValidIntAxis)

\* the sum of the elements of an array
RECURSIVE SumOfSeq(_, _)
SumOfSeq(seq, i) == IF i > Len(seq) THEN 0 ELSE seq[i] + SumOfSeq(seq, i + 1)

\* C10: a reduction (sum, mean, std, min, max, argmin, argmax) of a non-empty
\* array with axis None returns a scalar, never None; the sum is the sum of
\* all elements.
C10_NoneAxisReturnsScalar ==
    (call.fn \in Reductions /\ oin.kind = "ndarray" /\ oin.nd.len > 0
        /\ call.axis.t = "none") =>
        /\ ret.kind = "scalar"
        /\ call.fn = "sum" => ret.val = RatInt(SumOfSeq(Flat(oin.nd, 0), 1))

\* the number of elements of the array a reduction along the valid axis makes
ReducedLen ==
    ProdFrom([i \in Slots |-> IF i = SlotOfAxis THEN 1 ELSE oin.nd.shape[i]], 1)

\* C11: a reduction (sum, mean, std, min, max, argmin, argmax) of an array
\* along a valid axis returns a bare scalar if and only if the reduced result
\* has exactly one element, and an array otherwise, by the same rule in the
\* sum / mean / std family and in the min / max / argmin / argmax family.
C11_ScalarIffOneElement ==
    ReducedAlongAxis => (ret.kind = "scalar" <=> ReducedLen = 1)

\* the extreme functions, and a call of one on a sequence with None or an
\* integer as the axis
Extremes == {"min", "max", "argmin", "argmax"}

ExtremeCalled == call.fn \in Extremes /\ call.axis.t \in {"none", "int"}

\* the items of the input sequence as a set, its extreme for the function
\* called, and the smallest index (from 0) that holds it
ItemSet == {oin.items[i] : i \in 1..Len(oin.items)}

ExtremeItem ==
    IF call.fn \in {"max", "argmax"}
    THEN CHOOSE v \in ItemSet : \A w \in ItemSet : w <= v
    ELSE CHOOSE v \in ItemSet : \A w \in ItemSet : v <= w

FirstExtremeIndex ==
    CHOOSE i \in 0..(Len(oin.items) - 1) :
        /\ oin.items[i + 1] = ExtremeItem
        /\ \A j \in 0..(i - 1) : oin.items[j + 1] # ExtremeItem

\* C12: on a non-empty sequence argmin (argmax) returns the smallest index
\* that holds the minimum (maximum) of the sequence, and min (max) return the
\* item at that index.
C12_FirstAmongTies ==
    (ExtremeCalled /\ oin.kind = "iterable" /\ Len(oin.items) > 0) =>
        /\ ret.kind = "scalar"
        /\ call.fn \in {"argmin", "argmax"} => ret.val = FirstExtremeIndex
        /\ call.fn \in {"min", "max"} => ret.val = oin.items[FirstExtremeIndex + 1]

\* argmin has returned 1 on a sequence whose minimum stands at 1 and at 2
C12_Witness ==
    /\ ExtremeCalled /\ call.fn = "argmin" /\ oin.kind = "iterable"
    /\ Len(oin.items) >= 3
    /\ oin.items[2] = oin.items[3] /\ oin.items[2] < oin.items[1]
    /\ ret.kind = "scalar" /\ ret.val = 1

\* the input has no elements: an empty sequence, or an array of len 0
EmptyInput ==
    \/ oin.kind = "iterable" /\ Len(oin.items) = 0
    \/ oin.kind = "ndarray" /\ oin.nd.len = 0

\* C13: min, max, argmin and argmax of an empty sequence or of an array of
\* len 0, for axis None and for every integer axis, valid or not, raise the
\* ValueError of the empty input and return nothing; on an array this comes
\* before the axis is checked and before anything is allocated.
C13_EmptyInputRaises ==
    (ExtremeCalled /\ EmptyInput) =>
        /\ ret.kind = "ValueError"
        /\ ret.msg \in {"attempt to get argmin/argmax of an empty sequence",
                        "attempt to get (arg)min/(arg)max of empty sequence"}
        /\ ret.arr = NoArray
        /\ ret.red = NoDesc
        /\ ret.live = 0

\* argmax of an empty array with an axis outside the rank has raised the
\* ValueError of the empty input
C13_Witness ==
    /\ ExtremeCalled /\ call.fn = "argmax"
    /\ oin.kind = "ndarray" /\ oin.nd.len = 0
    /\ call.axis.t = "int" /\ ~ValidIntAxis
    /\ ret.kind = "ValueError"
    /\ ret.msg = "attempt to get (arg)min/(arg)max of empty sequence"

\* the closed forms on the input sequence: the arithmetic mean, and the sum of
\* the squares of the distances from it
SeqMean == Rat(SumOfSeq(oin.items, 1), Len(oin.items))

RECURSIVE SqDevFrom(_, _, _)
SqDevFrom(seq, mean, i) ==
    IF i > Len(seq) THEN RatInt(0)
    ELSE RatAdd(RatMul(RatSub(RatInt(seq[i]), mean), RatSub(RatInt(seq[i]), mean)),
                SqDevFrom(seq, mean, i + 1))

SeqSqDev == SqDevFrom(oin.items, SeqMean, 1)

\* C14: on a sequence of n >= 2 values the streaming update ends with m the
\* arithmetic mean and s the sum of the squared deviations from it, mean
\* returns that mean, and std returns the square root of s / (n - ddof) for
\* ddof 0 and 1: the population and the sample standard deviation.
C14_StreamingMeanStd ==
    (oin.kind = "iterable" /\ Len(oin.items) >= 2) =>
        /\ Scan(oin.items).m = SeqMean
        /\ Scan(oin.items).s = SeqSqDev
        /\ (call.fn = "mean" /\ call.axis.t = "none") =>
              ret.kind = "scalar" /\ ret.val = SeqMean
        /\ (call.fn = "std" /\ call.axis.t = "none" /\ call.ddof \in {0, 1}) =>
              /\ ret.kind = "scalar"
              /\ ret.val = Sqrt(RatDiv(SeqSqDev, RatInt(Len(oin.items) - call.ddof)))

\* the values of the array or the scalar a reduction of an array returned
ReturnedValues ==
    IF ret.kind = "scalar" THEN {ret.val}
    ELSE {ret.arr.data[i] : i \in 1..Len(ret.arr.data)}

\* C15: std with ddof >= n, n the number of elements scanned (the items of a
\* sequence, the extent of the axis of an array), returns 0: it does not
\* fail, divide by zero or return another value.
C15_StdZeroWhenDdofTooLarge ==
    /\ (call.fn = "std" /\ oin.kind = "iterable" /\ call.axis.t = "none"
           /\ call.ddof >= Len(oin.items)) =>
          ret.kind = "scalar" /\ ret.val = Sqrt(RatInt(0))
    /\ (call.fn = "std" /\ oin.kind = "ndarray" /\ ValidIntAxis
           /\ call.axis.v \in {0, 1} /\ call.ddof >= ExtentOfAxis) =>
          /\ ret.kind \in {"scalar", "array"}
          /\ \A e \in ReturnedValues : e.ssd = RatInt(0) /\ e.div # 0

\* C16: sum of a sequence returns the arithmetic sum of its items, 0 for the
\* empty sequence; nothing but the items adds to it.
C16_SequenceSum ==
    (call.fn = "sum" /\ oin.kind = "iterable" /\ call.axis.t \in {"none", "int"}) =>
        ret.kind = "scalar" /\ ret.val = RatInt(SumOfSeq(oin.items, 1))

\* the order n of the call is one the contract allows on the chosen axis
ValidDiffOrder == call.n >= 0 /\ call.n <= 9 /\ call.n < ExtentOfAxis

\* C17: on an array and a valid axis of extent E, diff succeeds only if
\* 0 <= n <= 9 and n < E; every other n (negative, above 9, 256 or 257,
\* n >= E) raises the ValueError 'differentiation order out of range' and
\* returns no array; on success the shape is that of the input with the
\* extent of the axis reduced by n.
C17_DiffOrderValidated ==
    (CalledOnArray("diff") /\ ValidIntAxis) =>
        /\ ret.kind = "array" => ValidDiffOrder
        /\ ~ValidDiffOrder =>
              /\ ret.kind = "ValueError"
              /\ ret.msg = "differentiation order out of range"
              /\ ret.arr = NoArray
        /\ ret.kind = "array" =>
              ret.arr.shape = [oin.nd.shape EXCEPT ![SlotOfAxis] = @ - call.n]

\* the source's element k places along the chosen axis from the index tuple idx
SourceAlong(idx, k) ==
    Elem(oin.nd, [idx EXCEPT ![SlotOfAxis] = @ + k], 0)

\* the forward difference of order n of the source at the index tuple idx
ForwardDiff(idx, n) ==
    CASE n = 0 -> SourceAlong(idx, 0)
      [] n = 1 -> SourceAlong(idx, 1) - SourceAlong(idx, 0)
      [] n = 2 -> (SourceAlong(idx, 2) - SourceAlong(idx, 1))
                    - (SourceAlong(idx, 1) - SourceAlong(idx, 0))

\* C18: with out[j] the sum of stencil[i] * source[j + i] along the axis,
\* diff with n = 0 returns a copy of the array, with n = 1 the forward
\* differences source[j + 1] - source[j], and with n = 2 the first
\* difference of the first difference.
C18_DiffValues ==
    (CalledOnArray("diff") /\ ValidIntAxis /\ ValidDiffOrder /\ call.n \in {0, 1, 2}) =>
        /\ ret.kind = "array"
        /\ call.n = 0 => ret.arr.shape = oin.nd.shape
        /\ \A pos \in 1..ret.arr.len :
              Flat(ret.arr, 0)[pos]
                = ForwardDiff(IdxOfFlat(ret.arr.shape, pos - 1), call.n)

\* the functions that allocate scratch buffers
ScratchUsers == Reductions \cup {"diff", "roll"}

\* C19: when sum, mean, std, min, max, argmin, argmax, diff or roll exits,
\* by a return or by an exception, every scratch buffer it allocated has
\* been released: no scratch buffer is live.
C19_ScratchReleased ==
    call.fn \in ScratchUsers => ret.live = 0

\* C20: std validates its axis as the other reductions do: on an array of
\* rank ndim every integer axis of [-ndim, ndim) is accepted and reduces
\* along that axis, None is accepted, an integer outside [-ndim, ndim) raises
\* the ValueError 'index out of range', and an axis that is neither None nor
\* an integer (a boolean included) raises a TypeError.
C20_StdAxisDomain ==
    CalledOnArray("std") =>
        /\ ValidIntAxis =>
              /\ ret.kind \in {"array", "scalar"}
              /\ ret.red = numerical_reduce_axes(oin.nd, call.axis.v % oin.nd.ndim,
                                                 ZeroDesc, ZeroDesc)
        /\ call.axis.t = "none" => ret.kind \in {"array", "scalar", "none"}
        /\ (call.axis.t = "int" /\ ~ValidIntAxis) =>
              ret.kind = "ValueError" /\ ret.msg = "index out of range"
        /\ call.axis.t \notin {"none", "int"} => ret.kind = "TypeError"

\* the addresses reachable through an array: one per index tuple
Addresses(a) == {PtrOf(a, idx) : idx \in Indices(a)}

\* the bounds invariant of an array: it starts at or after the start of its
\* buffer, and every reachable address is an element of the buffer
BoundsInvariant(a) ==
    /\ a.array >= 0
    /\ \A p \in Addresses(a) : InBuffer(a, p)

\* C21: the array flip returns from a source that satisfies the bounds
\* invariant (axes of extent 0 or 1 and reversed views included) satisfies
\* it too: it starts at or after the start of its buffer and every
\* reachable address lies in the buffer; along an axis, the addresses
\* reachable through the view are those reachable through the source.
C21_FlipViewInBounds ==
    (CalledOnArray("flip") /\ BoundsInvariant(oin.nd) /\ ret.kind = "array") =>
        /\ BoundsInvariant(ret.arr)
        /\ call.axis.t = "int" => Addresses(ret.arr) = Addresses(oin.nd)

\* how many of the call's writes went through the pointer p
WritesThrough(p) == Cardinality({k \in 1..Len(ret.writes) : ret.writes[k] = p})

\* C22: during roll, flattened or along a valid axis, for every distance:
\* no modulo by a zero extent is evaluated (the call does not end in the
\* division trap), every write lands inside the fresh destination buffer,
\* every position of the destination is written exactly once, and the
\* destination is not the buffer of the source.
C22_RollWritesSafe ==
    (CalledOnArray("roll") /\ (call.axis.t = "none" \/ ValidIntAxis)) =>
        /\ ret.kind = "array"
        /\ ret.oob = {}
        /\ ret.arr.buf # oin.nd.buf
        /\ \A pos \in 0..(ret.arr.len - 1) :
              WritesThrough(pos * ret.arr.itemsize) = 1

\* the binomial coefficient, by Pascal's rule
RECURSIVE Binomial(_, _)
Binomial(n, k) ==
    IF k = 0 \/ k = n THEN 1 ELSE Binomial(n - 1, k - 1) + Binomial(n - 1, k)

\* C23: for every order N of 0..9 the recurrence stencil[0] = 1,
\* stencil[i] = -stencil[i-1] * (N - i + 1) / i in C integer division and
\* signed 8-bit slots gives stencil[i] = (-1)^i * C(N, i) for 0 <= i <= N;
\* every division is exact, every value is in [-128, 127], and the entries
\* sum to 0 for N >= 1.
C23_StencilIsBinomial ==
    call.fn = "stencil" =>
        LET N == call.n
            st == ret.val
        IN  /\ Len(st) = N + 1
            /\ \A i \in 0..N :
                  st[i + 1] = (IF i % 2 = 0 THEN 1 ELSE -1) * Binomial(N, i)
            /\ \A i \in 1..N :
                  /\ (-st[i] * (N - i + 1)) % i = 0
                  /\ CDiv(-st[i] * (N - i + 1), i) \in (-128)..127
            /\ N >= 1 => SumOfSeq(st, 1) = 0

\* the stencil of order 9 has been built: its middle entries are 126, -126
C23_Witness ==
    /\ call.fn = "stencil" /\ call.n = 9
    /\ ret.val[5] = 126 /\ ret.val[6] = -126

====
